---- MODULE Spec2Model ----
(***************************************************************************)
(* Model of the shared-context store of src/context_server.py:             *)
(* ContextServer (store_context, get_context, clear_context, get_summary,  *)
(* export_context, import_context) called by concurrent asyncio tasks.     *)
(*                                                                         *)
(* Every coroutine body runs under `async with self._lock'.  The body of   *)
(* store_context is split at its three statements (log append, discovery   *)
(* merge, tool-output extend) so that a caller that fails half way, or a   *)
(* store whose lock does not exclude, is visible in the state.             *)
(***************************************************************************)
EXTENDS Integers, Sequences, FiniteSets, TLC

VARIABLES shared_context, locked, waiters, pc, frame, hist, heap

vars == <<shared_context, locked, waiters, pc, frame, hist, heap>>

(***************************************************************************)
(* Bounds of the model.                                                    *)
(***************************************************************************)
MaxLog == 2          \* store_context calls admitted while the log is shorter
MaxEntriesArg == 1   \* explicit max_entries are in -MaxEntriesArg..MaxEntriesArg
MaxMutations == 2    \* objects of the heap that callers change after sharing them
MaxCalls == 6        \* analyze_code calls made on one ResearchAssistant

Tasks == {"t1", "t2"}
Models == {"claude", "gpt4"}
\* readings of datetime.now().isoformat()
Timestamps == {"T1"}
\* for_model arguments of get_context: the producers and one that never stores
Consumers == Models \cup {"gemini"}

(***************************************************************************)
(* Python / JSON values: a tagged variant.  Only the field selected by     *)
(* `type' is meaningful.  A dict is a function from string keys.           *)
(***************************************************************************)
EmptyDict == <<>>
JStr(x)  == [type |-> "str",  s |-> x,  n |-> 0, l |-> <<>>, d |-> EmptyDict]
JInt(x)  == [type |-> "int",  s |-> "", n |-> x, l |-> <<>>, d |-> EmptyDict]
JList(x) == [type |-> "list", s |-> "", n |-> 0, l |-> x,    d |-> EmptyDict]
JDict(x) == [type |-> "dict", s |-> "", n |-> 0, l |-> <<>>, d |-> x]

\* a reference to the object at address a of the heap
JRef(a)  == [type |-> "ref",  s |-> "", n |-> a, l |-> <<>>, d |-> EmptyDict]

\* the elements of a sequence
Range(s) == {s[i] : i \in DOMAIN s}

\* Get without its default: dict.get(key) gives None for a missing key
Get_NoDefault(dict, key, default) ==
    IF key \in DOMAIN dict THEN dict[key] ELSE JStr("None")

\* dict.get(key, default)
Get(dict, key, default) == IF key \in DOMAIN dict THEN dict[key] ELSE default

\* DictUpdate keeping the value already stored for a key
DictUpdate_KeepOld(dict, other) == dict @@ other

\* dict.update(other) for a mapping `other': keys of other overwrite
DictUpdate(dict, other) == other @@ dict

(***************************************************************************)
(* The payloads (`context' arguments) the callers pass to store_context.   *)
(* A payload is a dict: a function from the keys present to values.        *)
(***************************************************************************)
PayloadA == ("summary" :> JStr("s1")) @@ ("discoveries" :> JDict("x" :> 1))
PayloadB == ("summary" :> JStr("s2")) @@ ("findings" :> JList(<<"f1">>))
PayloadC == ("discoveries" :> JDict("x" :> 2))
              @@ ("tool_outputs" :> JList(<<"o1", "o2">>))
\* discoveries is not a mapping
PayloadD == ("discoveries" :> JInt(5)) @@ ("tool_outputs" :> JList(<<"o3">>))
\* tool_outputs is not a sequence
PayloadE == ("discoveries" :> JDict("y" :> 1)) @@ ("tool_outputs" :> JInt(5))

Payloads == {PayloadA, PayloadB, PayloadC, PayloadD, PayloadE}

(***************************************************************************)
(* ContextEntry and SharedContext                                          *)
(***************************************************************************)
ContextEntry(model, timestamp, content) ==
    [model |-> model, timestamp |-> timestamp, content |-> content]

SharedContext(conversations, tool_outputs, discovered_info) ==
    [conversations |-> conversations,
     tool_outputs |-> tool_outputs,
     discovered_info |-> discovered_info]

EmptySharedContext == SharedContext(<<>>, <<>>, EmptyDict)

(***************************************************************************)
(* The file json.dump writes.  A JSON text has strings, numbers, arrays and *)
(* objects where the Python value has str, int, list and dict; json.load    *)
(* maps them back.  The values of a payload are converted one by one.       *)
(***************************************************************************)
JsonType(pytype) ==
    CASE pytype = "str" -> "string"
      [] pytype = "int" -> "number"
      [] pytype = "list" -> "array"
      [] pytype = "dict" -> "object"

PyType(jsontype) ==
    CASE jsontype = "string" -> "str"
      [] jsontype = "number" -> "int"
      [] jsontype = "array" -> "list"
      [] jsontype = "object" -> "dict"

\* json.dump(data, f, indent=2): the text written for the dict of to_dict
json_dump(data) ==
    [data EXCEPT !.conversations =
        [i \in 1..Len(data.conversations) |->
            [data.conversations[i] EXCEPT !.content =
                [k \in DOMAIN data.conversations[i].content |->
                    [data.conversations[i].content[k] EXCEPT
                        !.type = JsonType(@)]]]]]

\* data = json.load(f), for a text that parses
json_parse(text) ==
    [text EXCEPT !.conversations =
        [i \in 1..Len(text.conversations) |->
            [text.conversations[i] EXCEPT !.content =
                [k \in DOMAIN text.conversations[i].content |->
                    [text.conversations[i].content[k] EXCEPT
                        !.type = PyType(@)]]]]]

(***************************************************************************)
(* Snapshot documents found at the filepath given to import_context.       *)
(* status: "missing" (open fails), "garbage" (json.load fails), "array"    *)
(* (valid JSON that is not an object), "object".  `fields' are the         *)
(* top-level keys present; a conversation record likewise lists its keys.  *)
(* The documents are JSON texts: json_dump of the data they parse to.       *)
(***************************************************************************)
EntryFields == {"model", "timestamp", "content"}

ConvRec(fields, model, timestamp, content) ==
    [fields |-> fields, model |-> model, timestamp |-> timestamp, content |-> content]

Doc(status, fields, conversations, tool_outputs, discovered_info) ==
    [status |-> status, fields |-> fields, conversations |-> conversations,
     tool_outputs |-> tool_outputs, discovered_info |-> discovered_info]

NoDoc == Doc("missing", {}, <<>>, <<>>, EmptyDict)
DocGarbage == Doc("garbage", {}, <<>>, <<>>, EmptyDict)
DocArray == Doc("array", {}, <<>>, <<>>, EmptyDict)
\* {} : none of the three top-level fields
DocEmptyObject == Doc("object", {}, <<>>, <<>>, EmptyDict)
\* the three fields, with more tool outputs than get_context shows
DocFull ==
    json_dump(
    Doc("object", {"conversations", "tool_outputs", "discovered_info"},
        <<ConvRec(EntryFields, "gpt4", "T1", PayloadB)>>,
        <<"b1", "b2", "b3", "b4", "b5", "b6", "b7", "b8", "b9", "b10", "b11">>,
        ("z" :> 1)))
\* tool_outputs absent, an unknown top-level field present
DocPartial ==
    json_dump(
    Doc("object", {"conversations", "discovered_info", "version"},
        <<ConvRec(EntryFields, "claude", "T0", PayloadA)>>, <<>>, ("x" :> 1)))
\* second entry record lacks "content"
DocEntryLacksField ==
    json_dump(
    Doc("object", {"conversations", "tool_outputs", "discovered_info"},
        <<ConvRec(EntryFields, "gpt4", "T1", PayloadB),
          ConvRec({"model", "timestamp"}, "claude", "T1", EmptyDict)>>,
        <<"o9">>, ("z" :> 1)))
\* entry record carries an unexpected field
DocEntryExtraField ==
    json_dump(
    Doc("object", {"conversations", "tool_outputs", "discovered_info"},
        <<ConvRec(EntryFields \cup {"note"}, "gpt4", "T1", PayloadB)>>,
        <<"o9">>, ("z" :> 1)))

Docs == {NoDoc, DocGarbage, DocArray, DocEmptyObject, DocFull,
         DocPartial, DocEntryLacksField, DocEntryExtraField}

(***************************************************************************)
(* get_context                                                             *)
(***************************************************************************)
RecentToolOutputs == 10
\* max_entries: int = 10
DefaultMaxEntries == 10

\* the max_entries arguments of the calls
MaxEntriesArgs == ((-MaxEntriesArg)..MaxEntriesArg) \cup {DefaultMaxEntries}

\* TailSlice keeping the first n elements instead of the last
TailSlice_Head(s, n) ==
    IF n <= 0 THEN <<>>
    ELSE SubSeq(s, 1, IF n < Len(s) THEN n ELSE Len(s))

\* Python's  s[-n:]
TailSlice(s, n) ==
    LET len == Len(s)
        start == IF -n < 0
                 THEN (IF len - n < 0 THEN 0 ELSE len - n)
                 ELSE (IF -n > len THEN len ELSE -n)
    IN  SubSeq(s, start + 1, len)

\* OtherConversations without the producer filter
OtherConversations_NoFilter(conversations, for_model, max_entries) ==
    TailSlice(conversations, max_entries)

\* OtherConversations truncating the raw log before filtering
OtherConversations_SliceFirst(conversations, for_model, max_entries) ==
    SelectSeq(TailSlice(conversations, max_entries),
              LAMBDA conv : conv.model # for_model)

\* [conv for conv in conversations if conv.model != for_model][-max_entries:]
OtherConversations(conversations, for_model, max_entries) ==
    TailSlice(SelectSeq(conversations, LAMBDA conv : conv.model # for_model),
              max_entries)

FormatEntry(conv) ==
    [model |-> conv.model,
     timestamp |-> conv.timestamp,
     summary |-> Get(conv.content, "summary", JStr("")),
     findings |-> Get(conv.content, "findings", JList(<<>>)),
     suggestions |-> Get(conv.content, "suggestions", JList(<<>>))]

format_previous_analysis(conversations) ==
    [i \in 1..Len(conversations) |-> FormatEntry(conversations[i])]

get_context(sc, for_model, max_entries) ==
    [previous_analysis |->
        format_previous_analysis(
            OtherConversations(sc.conversations, for_model, max_entries)),
     key_findings |-> sc.discovered_info,
     recent_tool_outputs |-> TailSlice(sc.tool_outputs, RecentToolOutputs)]

EmptyView ==
    [previous_analysis |-> <<>>, key_findings |-> EmptyDict,
     recent_tool_outputs |-> <<>>]

(***************************************************************************)
(* get_summary                                                             *)
(***************************************************************************)
\* get_summary counting the tool outputs a view shows
get_summary_Recent(sc) ==
    [total_conversations |-> Len(sc.conversations),
     models_involved |-> {sc.conversations[i].model : i \in 1..Len(sc.conversations)},
     discoveries_count |-> Cardinality(DOMAIN sc.discovered_info),
     tool_outputs_count |-> Len(TailSlice(sc.tool_outputs, RecentToolOutputs))]

get_summary(sc) ==
    [total_conversations |-> Len(sc.conversations),
     models_involved |-> {sc.conversations[i].model : i \in 1..Len(sc.conversations)},
     discoveries_count |-> Cardinality(DOMAIN sc.discovered_info),
     tool_outputs_count |-> Len(sc.tool_outputs)]

EmptySummary == get_summary(EmptySharedContext)

(***************************************************************************)
(* export_context / import_context                                         *)
(***************************************************************************)
\* to_dict leaving the tool-output buffer out of the snapshot
to_dict_NoBuffer(sc) ==
    Doc("object", {"conversations", "discovered_info"},
        [i \in 1..Len(sc.conversations) |->
            ConvRec(EntryFields, sc.conversations[i].model,
                    sc.conversations[i].timestamp, sc.conversations[i].content)],
        <<>>, sc.discovered_info)

\* SharedContext.to_dict: the dict handed to json.dump
to_dict(sc) ==
    Doc("object", {"conversations", "tool_outputs", "discovered_info"},
        [i \in 1..Len(sc.conversations) |->
            ConvRec(EntryFields, sc.conversations[i].model,
                    sc.conversations[i].timestamp, sc.conversations[i].content)],
        sc.tool_outputs, sc.discovered_info)

\* with open(filepath) as f: data = json.load(f)  -- the exception raised,
\* "" if the file is read and parsed
json_load(doc) ==
    CASE doc.status = "missing" -> "FileNotFoundError"
      [] doc.status = "garbage" -> "JSONDecodeError"
      [] doc.status \in {"array", "object"} -> ""

SnapshotFields == {"conversations", "tool_outputs", "discovered_info"}

\* Reconstruct rejecting a document that has none of the three fields
Reconstruct_Strict(sc, data) ==
    IF data.status = "object" /\ data.fields \cap SnapshotFields = {}
    THEN [exc |-> "MalformedSnapshot", shared_context |-> sc]
    ELSE [exc |-> IF data.status # "object" THEN "AttributeError" ELSE "",
          shared_context |->
             IF data.status # "object" THEN sc
             ELSE SharedContext(
                    [i \in 1..Len(data.conversations) |->
                        ContextEntry(data.conversations[i].model,
                                     data.conversations[i].timestamp,
                                     data.conversations[i].content)],
                    data.tool_outputs, data.discovered_info)]

\* Reconstruct filling the store's containers one by one: tool_outputs and
\* discovered_info are replaced even when an entry record is then rejected
Reconstruct_InPlace(sc, data) ==
    LET convs == IF "conversations" \in data.fields THEN data.conversations ELSE <<>>
        touts == IF "tool_outputs" \in data.fields THEN data.tool_outputs ELSE <<>>
        dinfo == IF "discovered_info" \in data.fields THEN data.discovered_info
                 ELSE EmptyDict
    IN  IF data.status # "object"
        THEN [exc |-> "AttributeError", shared_context |-> sc]
        ELSE IF \E i \in 1..Len(convs) : convs[i].fields # EntryFields
        THEN [exc |-> "TypeError",
              shared_context |-> SharedContext(sc.conversations, touts, dinfo)]
        ELSE [exc |-> "",
              shared_context |->
                 SharedContext(
                    [i \in 1..Len(convs) |->
                        ContextEntry(convs[i].model, convs[i].timestamp,
                                     convs[i].content)],
                    touts, dinfo)]

\* Reconstruct adding the snapshot to what the store holds
Reconstruct_Merge(sc, data) ==
    LET convs == IF "conversations" \in data.fields THEN data.conversations ELSE <<>>
        touts == IF "tool_outputs" \in data.fields THEN data.tool_outputs ELSE <<>>
        dinfo == IF "discovered_info" \in data.fields THEN data.discovered_info
                 ELSE EmptyDict
    IN  IF data.status # "object"
        THEN [exc |-> "AttributeError", shared_context |-> sc]
        ELSE IF \E i \in 1..Len(convs) : convs[i].fields # EntryFields
        THEN [exc |-> "TypeError", shared_context |-> sc]
        ELSE [exc |-> "",
              shared_context |->
                 SharedContext(
                    sc.conversations \o
                    [i \in 1..Len(convs) |->
                        ContextEntry(convs[i].model, convs[i].timestamp,
                                     convs[i].content)],
                    sc.tool_outputs \o touts, dinfo @@ sc.discovered_info)]

\* self.shared_context = SharedContext(conversations=[ContextEntry(**conv) ...],
\*     tool_outputs=data.get(...), discovered_info=data.get(...)):
\* the exception raised ("" if none) and shared_context after the statement.
\* The argument expressions are evaluated before the one assignment.
Reconstruct(sc, data) ==
    LET convs == IF "conversations" \in data.fields THEN data.conversations ELSE <<>>
        touts == IF "tool_outputs" \in data.fields THEN data.tool_outputs ELSE <<>>
        dinfo == IF "discovered_info" \in data.fields THEN data.discovered_info
                 ELSE EmptyDict
    IN  IF data.status # "object"
        THEN [exc |-> "AttributeError", shared_context |-> sc]
        ELSE IF \E i \in 1..Len(convs) : convs[i].fields # EntryFields
        THEN [exc |-> "TypeError", shared_context |-> sc]
        ELSE [exc |-> "",
              shared_context |->
                 SharedContext(
                    [i \in 1..Len(convs) |->
                        ContextEntry(convs[i].model, convs[i].timestamp,
                                     convs[i].content)],
                    touts, dinfo)]

\* import_context(filepath) as a whole on a store that holds sc, `text' being
\* what is at filepath: the exception raised and the store afterwards
import_context(sc, text) ==
    IF json_load(text) # ""
    THEN [exc |-> json_load(text), shared_context |-> sc]
    ELSE Reconstruct(sc, json_parse(text))

(***************************************************************************)
(* State                                                                   *)
(*   shared_context  ContextServer.shared_context                          *)
(*   locked, waiters ContextServer._lock (asyncio.Lock: flag, FIFO waiters)*)
(*   pc, frame       position and locals of each calling task; frame.before*)
(*                   is the shared_context the body found when it started  *)
(*   hist            history: what the store was last reset to and the     *)
(*                   store_context calls executed since, in order          *)
(*   heap            the mutable objects (dicts, lists) that callers built *)
(*                   and share with the store, by address; empty where     *)
(*                   payloads are taken as values                          *)
(***************************************************************************)
NoFrame ==
    [op |-> "", model |-> "", context |-> EmptyDict, max_entries |-> 0,
     doc |-> NoDoc, ret |-> EmptyView, exc |-> "", before |-> EmptySharedContext]

NoHist == [appendsOnly |-> TRUE, base |-> 0, acquired |-> <<>>]

Init ==
    /\ shared_context = EmptySharedContext
    /\ locked = FALSE
    /\ waiters = <<>>
    /\ pc = [t \in Tasks |-> "idle"]
    /\ frame = [t \in Tasks |-> NoFrame]
    /\ hist = NoHist
    /\ heap = <<>>

\* CanAcquire of a lock that never excludes
CanAcquire_Always == TRUE

\* asyncio.Lock.acquire returns at once iff the lock is free and nobody waits
CanAcquire == ~locked /\ waiters = <<>>

\* A task calls one of the coroutines and reaches `async with self._lock:'.
\* Which coroutine it is, and its arguments, show in the model from the moment
\* the body starts (Begin); until then the call is only a waiter on the lock.
Enter(t) ==
    /\ pc[t] = "idle"
    /\ IF CanAcquire
       THEN /\ locked' = TRUE
            /\ pc' = [pc EXCEPT ![t] = "locked"]
            /\ UNCHANGED waiters
       ELSE /\ waiters' = Append(waiters, t)
            /\ pc' = [pc EXCEPT ![t] = "wait"]
            /\ UNCHANGED locked
    /\ UNCHANGED <<shared_context, frame, hist, heap>>

\* a waiter woken by release takes the lock (asyncio.Lock is FIFO)
Resume(t) ==
    /\ pc[t] = "wait"
    /\ ~locked
    /\ waiters # <<>>
    /\ Head(waiters) = t
    /\ waiters' = Tail(waiters)
    /\ locked' = TRUE
    /\ pc' = [pc EXCEPT ![t] = "locked"]
    /\ UNCHANGED <<shared_context, frame, hist, heap>>

\* leaving `async with self._lock', normally or by an exception; the result or
\* the exception in frame[t] goes to the caller
Release(t) ==
    /\ pc[t] = "release"
    /\ locked' = FALSE
    /\ pc' = [pc EXCEPT ![t] = "idle"]
    /\ frame' = [frame EXCEPT ![t] = NoFrame]
    /\ UNCHANGED <<shared_context, waiters, hist, heap>>

\* Raise leaving the coroutine without going through the lock's __aexit__
Raise_NoRelease(t, exc) ==
    /\ pc' = [pc EXCEPT ![t] = "idle"]
    /\ frame' = [frame EXCEPT ![t] = NoFrame]

\* an exception inside `async with self._lock': control goes to __aexit__
Raise(t, exc) ==
    /\ pc' = [pc EXCEPT ![t] = "release"]
    /\ frame' = [frame EXCEPT ![t].exc = exc]

(***************************************************************************)
(* store_context(model, context)                                           *)
(***************************************************************************)
\* AppendEntry inserting at the front of the log
AppendEntry_Front(conversations, entry) == <<entry>> \o conversations

\* self.shared_context.conversations.append(entry)
AppendEntry(conversations, entry) == Append(conversations, entry)

\* entry = ContextEntry(model, now, context); conversations.append(entry)
StoreAppend(t, model, context, now) ==
    /\ pc[t] = "locked"
    /\ Len(shared_context.conversations) < MaxLog
    /\ shared_context' =
          [shared_context EXCEPT
              !.conversations = AppendEntry(@, ContextEntry(model, now, context))]
    /\ frame' = [frame EXCEPT ![t].op = "store_context", ![t].before = shared_context, ![t].model = model,
                              ![t].context = context]
    /\ hist' = [hist EXCEPT !.acquired = Append(@, <<model, context>>)]
    /\ pc' = [pc EXCEPT ![t] = "store_discoveries"]
    /\ UNCHANGED <<locked, waiters, heap>>

\* if "discoveries" in context: discovered_info.update(context["discoveries"])
StoreDiscoveries(t) ==
    /\ pc[t] = "store_discoveries"
    /\ LET context == frame[t].context IN
       IF "discoveries" \notin DOMAIN context
       THEN /\ pc' = [pc EXCEPT ![t] = "store_tool_outputs"]
            /\ UNCHANGED <<shared_context, frame>>
       ELSE CASE context["discoveries"].type = "dict" ->
                   /\ shared_context' =
                         [shared_context EXCEPT
                            !.discovered_info =
                                DictUpdate(@, context["discoveries"].d)]
                   /\ pc' = [pc EXCEPT ![t] = "store_tool_outputs"]
                   /\ UNCHANGED frame
              [] context["discoveries"].type = "int" ->
                   \* 'int' object is not iterable
                   /\ Raise(t, "TypeError")
                   /\ UNCHANGED shared_context
    /\ UNCHANGED <<locked, waiters, hist, heap>>

\* if "tool_outputs" in context: tool_outputs.extend(context["tool_outputs"])
StoreToolOutputs(t) ==
    /\ pc[t] = "store_tool_outputs"
    /\ LET context == frame[t].context IN
       IF "tool_outputs" \notin DOMAIN context
       THEN /\ pc' = [pc EXCEPT ![t] = "release"]
            /\ UNCHANGED <<shared_context, frame>>
       ELSE CASE context["tool_outputs"].type = "list" ->
                   /\ shared_context' =
                         [shared_context EXCEPT
                            !.tool_outputs = @ \o context["tool_outputs"].l]
                   /\ pc' = [pc EXCEPT ![t] = "release"]
                   /\ UNCHANGED frame
              [] context["tool_outputs"].type = "int" ->
                   /\ Raise(t, "TypeError")
                   /\ UNCHANGED shared_context
    /\ UNCHANGED <<locked, waiters, hist, heap>>

(***************************************************************************)
(* get_context(for_model, max_entries)                                     *)
(***************************************************************************)
GetContext(t, for_model, max_entries) ==
    /\ pc[t] = "locked"
    /\ frame' = [frame EXCEPT ![t].op = "get_context", ![t].before = shared_context,
                              ![t].model = for_model,
                              ![t].max_entries = max_entries,
                              ![t].ret = get_context(shared_context, for_model,
                                                     max_entries)]
    /\ pc' = [pc EXCEPT ![t] = "release"]
    /\ UNCHANGED <<shared_context, locked, waiters, hist, heap>>

(***************************************************************************)
(* clear_context                                                           *)
(***************************************************************************)
\* ClearContext emptying the log only
ClearContext_LogOnly(t) ==
    /\ pc[t] = "locked"
    /\ shared_context' = [shared_context EXCEPT !.conversations = <<>>]
    /\ hist' = NoHist
    /\ frame' = [frame EXCEPT ![t].op = "clear_context", ![t].before = shared_context]
    /\ pc' = [pc EXCEPT ![t] = "release"]
    /\ UNCHANGED <<locked, waiters, heap>>

\* self.shared_context = SharedContext()
ClearContext(t) ==
    /\ pc[t] = "locked"
    /\ shared_context' = EmptySharedContext
    /\ hist' = NoHist
    /\ frame' = [frame EXCEPT ![t].op = "clear_context", ![t].before = shared_context]
    /\ pc' = [pc EXCEPT ![t] = "release"]
    /\ UNCHANGED <<locked, waiters, heap>>

(***************************************************************************)
(* get_summary: synchronous, takes no lock                                 *)
(***************************************************************************)
\* The call computes get_summary(shared_context) and hands it to its caller
\* in one step: nothing of the store, the lock or the tasks changes.
GetSummary(t) ==
    /\ pc[t] = "idle"
    /\ UNCHANGED vars

(***************************************************************************)
(* export_context / import_context                                         *)
(***************************************************************************)
\* json.dump(self.shared_context.to_dict(), f): frame[t].doc is the file written
ExportContext(t) ==
    /\ pc[t] = "locked"
    /\ frame' = [frame EXCEPT ![t].op = "export_context", ![t].before = shared_context,
                              ![t].doc = json_dump(to_dict(shared_context))]
    /\ pc' = [pc EXCEPT ![t] = "release"]
    /\ UNCHANGED <<shared_context, locked, waiters, hist, heap>>

\* with open(filepath, 'r') as f: data = json.load(f)
ImportLoad(t, doc) ==
    /\ pc[t] = "locked"
    /\ IF json_load(doc) = ""
       THEN /\ pc' = [pc EXCEPT ![t] = "import_context"]
            /\ frame' = [frame EXCEPT ![t].op = "import_context", ![t].before = shared_context, ![t].doc = doc]
       ELSE /\ pc' = [pc EXCEPT ![t] = "release"]
            /\ frame' = [frame EXCEPT ![t].op = "import_context", ![t].before = shared_context, ![t].doc = doc,
                                      ![t].exc = json_load(doc)]
    /\ UNCHANGED <<shared_context, locked, waiters, hist, heap>>

\* self.shared_context = SharedContext(...)
ImportContext(t) ==
    /\ pc[t] = "import_context"
    /\ LET r == Reconstruct(shared_context, json_parse(frame[t].doc)) IN
       /\ shared_context' = r.shared_context
       /\ frame' = [frame EXCEPT ![t].exc = r.exc]
       /\ hist' = IF r.exc = ""
                  THEN [appendsOnly |-> FALSE,
                        base |-> Len(r.shared_context.conversations),
                        acquired |-> <<>>]
                  ELSE hist
    /\ pc' = [pc EXCEPT ![t] = "release"]
    /\ UNCHANGED <<locked, waiters, heap>>

Next ==
    \E t \in Tasks :
        \/ Enter(t)
        \/ Resume(t)
        \/ \E model \in Models, context \in Payloads, now \in Timestamps :
              StoreAppend(t, model, context, now)
        \/ StoreDiscoveries(t)
        \/ StoreToolOutputs(t)
        \/ \E for_model \in Consumers, max_entries \in MaxEntriesArgs :
              GetContext(t, for_model, max_entries)
        \/ ClearContext(t)
        \/ GetSummary(t)
        \/ ExportContext(t)
        \/ \E doc \in Docs : ImportLoad(t, doc)
        \/ ImportContext(t)
        \/ Release(t)

Spec == Init /\ [][Next]_vars

\* The calls of the runs under fair scheduling: one payload that is stored
\* whole and one for each statement of store_context that can raise, one
\* snapshot file for each way import_context can end, one get_context.
FairPayloads == {PayloadC, PayloadD, PayloadE}
FairDocs == {NoDoc, DocGarbage, DocArray, DocEntryLacksField, DocFull}

\* what the event loop does for a task that has made a call: wake it when it
\* is first in the lock's queue, run its body, leave the lock
Continue(t) ==
    \/ Resume(t)
    \/ \E model \in Models, context \in FairPayloads, now \in Timestamps :
          StoreAppend(t, model, context, now)
    \/ StoreDiscoveries(t)
    \/ StoreToolOutputs(t)
    \/ GetContext(t, "gemini", DefaultMaxEntries)
    \/ ClearContext(t)
    \/ ExportContext(t)
    \/ \E doc \in FairDocs : ImportLoad(t, doc)
    \/ ImportContext(t)
    \/ Release(t)

FairNext == \E t \in Tasks : Enter(t) \/ GetSummary(t) \/ Continue(t)

\* the asyncio event loop runs every task that is ready to run: a coroutine
\* that can continue does continue.  Making a call is up to the caller.
FairSpec == Init /\ [][FairNext]_vars /\ \A t \in Tasks : WF_vars(Continue(t))

(***************************************************************************)
(* The same store with payloads as Python objects.  A dict or a list is an *)
(* object of the heap, and a value held in a dict, a list or a container   *)
(* of the store is an immutable str/int or a reference (JRef) to an        *)
(* object.  store_context keeps the references it is given; get_context    *)
(* returns new containers that hold the references the store holds.  The   *)
(* callers run one call at a time here, and between calls they change the  *)
(* objects they hold.                                                      *)
(***************************************************************************)
\* the objects a producer builds for a payload, the payload dict first, when
\* the heap holds n objects
\* {"summary": "s1", "findings": ["f1"], "discoveries": {"x": [1]}}
ObjPayloadA(n) ==
    <<JDict(("summary" :> JStr("s1")) @@ ("findings" :> JRef(n + 2))
              @@ ("discoveries" :> JRef(n + 3))),
      JList(<<JStr("f1")>>),
      JDict("x" :> JRef(n + 4)),
      JList(<<JInt(1)>>)>>

\* {"tool_outputs": [{"tool": "lint"}]}
ObjPayloadB(n) ==
    <<JDict("tool_outputs" :> JRef(n + 2)),
      JList(<<JRef(n + 3)>>),
      JDict("tool" :> JStr("lint"))>>

\* {"summary": "s2"}
ObjPayloadC(n) == <<JDict("summary" :> JStr("s2"))>>

ObjPayloads(n) == {ObjPayloadA(n), ObjPayloadB(n), ObjPayloadC(n)}

\* the store as get_context reads it: conv.content is the payload dict
Shallow(sc, h) ==
    [sc EXCEPT !.conversations =
        [i \in 1..Len(sc.conversations) |->
            [sc.conversations[i] EXCEPT !.content = h[@.n].d]]]

\* the value a str/int or a reference stands for, objects read through
RECURSIVE Deep(_, _)
Deep(h, v) ==
    IF v.type # "ref" THEN v
    ELSE IF h[v.n].type = "list"
    THEN JList([i \in 1..Len(h[v.n].l) |-> Deep(h, h[v.n].l[i])])
    ELSE JDict([k \in DOMAIN h[v.n].d |-> Deep(h, h[v.n].d[k])])

\* the addresses of the objects reachable from a value
RECURSIVE Reach(_, _)
Reach(h, v) ==
    IF v.type # "ref" THEN {}
    ELSE {v.n} \cup UNION {Reach(h, x) :
                              x \in Range(h[v.n].l) \cup
                                    {h[v.n].d[k] : k \in DOMAIN h[v.n].d}}

ReachAll(h, values) == UNION {Reach(h, v) : v \in values}

\* store_context(model, context), the caller having just built the payload
\* objects `objs': the whole call
StoreObj(t, model, objs, now) ==
    /\ pc[t] = "idle"
    /\ Len(shared_context.conversations) < MaxLog
    /\ LET p == Len(heap) + 1
           h == heap \o objs
           context == h[p].d
       IN  /\ heap' = h
           /\ shared_context' =
                 SharedContext(
                    AppendEntry(shared_context.conversations,
                                ContextEntry(model, now, JRef(p))),
                    IF "tool_outputs" \in DOMAIN context
                    THEN shared_context.tool_outputs \o h[context["tool_outputs"].n].l
                    ELSE shared_context.tool_outputs,
                    IF "discoveries" \in DOMAIN context
                    THEN DictUpdate(shared_context.discovered_info,
                                    h[context["discoveries"].n].d)
                    ELSE shared_context.discovered_info)
    /\ UNCHANGED <<locked, waiters, pc, frame, hist>>

\* get_context(for_model, max_entries): the whole call; the caller keeps the
\* view in frame[t].ret
GetObj(t, for_model, max_entries) ==
    /\ pc[t] = "idle"
    /\ frame' = [frame EXCEPT ![t] =
                    [NoFrame EXCEPT !.op = "get_context", !.model = for_model,
                                    !.max_entries = max_entries,
                                    !.ret = get_context(Shallow(shared_context, heap),
                                                        for_model, max_entries)]]
    /\ UNCHANGED <<shared_context, locked, waiters, pc, hist, heap>>

\* what a caller does to an object it holds: list.append("m"), or
\* dict["summary"] = "m"
MutateObject(o) ==
    IF o.type = "list" THEN JList(Append(o.l, JStr("m")))
    ELSE JDict(("summary" :> JStr("m")) @@ o.d)

\* the caller has not yet changed o
Mutable(o) ==
    IF o.type = "list" THEN JStr("m") \notin Range(o.l) ELSE MutateObject(o) # o

Mutated(h) == {a \in DOMAIN h : ~Mutable(h[a])}

\* the task that asks for views in the runs on objects
Readers == {"t2"}

\* the values held in one part of a view
ViewParts == {"key_findings", "previous_analysis", "recent_tool_outputs"}

ViewValues(view, part) ==
    CASE part = "key_findings" ->
            {view.key_findings[k] : k \in DOMAIN view.key_findings}
      [] part = "previous_analysis" ->
            UNION {{e.summary, e.findings, e.suggestions} :
                     e \in Range(view.previous_analysis)}
      [] part = "recent_tool_outputs" -> Range(view.recent_tool_outputs)

\* a consumer changes an object reachable from a part of the view it got
MutateView(t, part, a) ==
    /\ pc[t] = "idle"
    /\ frame[t].op = "get_context"
    /\ a \in ReachAll(heap, ViewValues(frame[t].ret, part))
    /\ Mutable(heap[a])
    /\ Cardinality(Mutated(heap)) < MaxMutations
    /\ heap' = [heap EXCEPT ![a] = MutateObject(@)]
    /\ UNCHANGED <<shared_context, locked, waiters, pc, frame, hist>>

\* a consumer adds, removes or overwrites a key of the key_findings it got
KeyEdits == {"add", "remove", "overwrite"}

EditKeys(dict, edit) ==
    CASE edit = "add" -> ("new" :> JInt(0)) @@ dict
      [] edit = "remove" -> [k \in DOMAIN dict \ {"x"} |-> dict[k]]
      [] edit = "overwrite" -> [k \in DOMAIN dict |-> JInt(0)]

MutateKeys(t, edit) ==
    /\ pc[t] = "idle"
    /\ frame[t].op = "get_context"
    /\ EditKeys(frame[t].ret.key_findings, edit) # frame[t].ret.key_findings
    /\ frame' = [frame EXCEPT ![t].ret.key_findings = EditKeys(@, edit)]
    /\ UNCHANGED <<shared_context, locked, waiters, pc, hist, heap>>

\* a producer changes an object of a payload it passed to store_context
MutatePayload(a) ==
    /\ a \in DOMAIN heap
    /\ Mutable(heap[a])
    /\ Cardinality(Mutated(heap)) < MaxMutations
    /\ heap' = [heap EXCEPT ![a] = MutateObject(@)]
    /\ UNCHANGED <<shared_context, locked, waiters, pc, frame, hist>>

NextAlias ==
    \/ \E t \in Tasks, model \in Models, now \in Timestamps :
          \E objs \in ObjPayloads(Len(heap)) : StoreObj(t, model, objs, now)
    \/ \E t \in Readers, for_model \in Consumers :
          GetObj(t, for_model, DefaultMaxEntries)
    \/ \E t \in Readers, part \in ViewParts, a \in DOMAIN heap : MutateView(t, part, a)
    \/ \E t \in Readers, edit \in KeyEdits : MutateKeys(t, edit)
    \/ \E a \in DOMAIN heap : MutatePayload(a)

SpecAlias == Init /\ [][NextAlias]_vars

(***************************************************************************)
(* ResearchAssistant (src/research_assistant.py): one assistant, one       *)
(* ContextServer, analyze_code called again and again by one task, as      *)
(* analyze_mixed_codebase does.  No other task uses the store, so every    *)
(* call of the store finds the lock free and runs as a whole.              *)
(*   pc[Analyst]     the step of analyze_code the task is at               *)
(*   frame[Analyst]  the locals of analyze_code and of _gpt4_improve       *)
(*   hist            history: the calls made, and where in the log the     *)
(*                   current call put its claude and its gpt4 entry        *)
(* Timestamps are the number of the store_context call: datetime.now()     *)
(* moves on between two calls, each of which follows a request to a model. *)
(***************************************************************************)
Analyst == "t1"

Files == {"PlayerController.cs", "MainActivity.kt"}

\* store_context(model, context) as a whole: the exception raised and the
\* store afterwards
store_context(sc, model, context, now) ==
    LET logged ==
            [sc EXCEPT !.conversations =
                AppendEntry(@, ContextEntry(model, now, context))]
        merged ==
            IF "discoveries" \in DOMAIN context
            THEN [logged EXCEPT !.discovered_info =
                     DictUpdate(@, context["discoveries"].d)]
            ELSE logged
    IN  IF "discoveries" \in DOMAIN context /\ context["discoveries"].type # "dict"
        THEN [exc |-> "TypeError", shared_context |-> logged]
        ELSE IF "tool_outputs" \notin DOMAIN context
        THEN [exc |-> "", shared_context |-> merged]
        ELSE IF context["tool_outputs"].type # "list"
        THEN [exc |-> "TypeError", shared_context |-> merged]
        ELSE [exc |-> "",
              shared_context |->
                 [merged EXCEPT !.tool_outputs = @ \o context["tool_outputs"].l]]

\* what _claude_analyze returns: the analysis of the file, or the error dict
ClaudeAnalysis(file) ==
    ("summary" :> JStr(file)) @@ ("findings" :> JList(<<file>>))
       @@ ("discoveries" :> JDict("classes" :> 1))
       @@ ("raw_analysis" :> JStr("text"))

ClaudeError ==
    ("summary" :> JStr("Error analyzing with Claude")) @@ ("findings" :> JList(<<>>))
       @@ ("discoveries" :> JDict(EmptyDict)) @@ ("error" :> JStr("e"))

\* what _gpt4_improve and _gemini_review return
Gpt4Improvements ==
    ("summary" :> JStr("Identified optimization opportunities"))
       @@ ("findings" :> JList(<<"Performance improvements suggested">>))
       @@ ("suggestions" :> JList(<<"Consider adding type hints">>))
       @@ ("builds_on" :> JStr("claude_structure_analysis"))

GeminiReview ==
    ("summary" :> JStr("Completed comprehensive review"))
       @@ ("findings" :> JList(<<"Reviewed for bugs and edge cases">>))
       @@ ("issues_found" :> JList(<<"Missing error handling">>))

\* claude_findings = {} : no previous analysis
NoFindings ==
    [model |-> "", timestamp |-> 0, summary |-> JStr(""),
     findings |-> JList(<<>>), suggestions |-> JList(<<>>)]

NoLocals ==
    [file |-> "", gpt_context |-> EmptyView, claude_findings |-> NoFindings,
     gemini_context |-> EmptyView]

NoCalls == [calls |-> 0, claudeAt |-> 0, gpt4At |-> 0]

InitAssistant ==
    /\ shared_context = EmptySharedContext
    /\ locked = FALSE
    /\ waiters = <<>>
    /\ pc = [t \in Tasks |-> "idle"]
    /\ frame = [t \in Tasks |-> NoLocals]
    /\ hist = NoCalls
    /\ heap = <<>>

\* datetime.now().isoformat() at the next store_context call
Now == Len(shared_context.conversations) + 1

\* analyze_code(file_path): the file is read
AnalyzeCode(file) ==
    /\ pc[Analyst] = "idle"
    /\ hist.calls < MaxCalls
    /\ pc' = [pc EXCEPT ![Analyst] = "step1"]
    /\ frame' = [frame EXCEPT ![Analyst].file = file]
    /\ hist' = [calls |-> hist.calls + 1, claudeAt |-> 0, gpt4At |-> 0]
    /\ UNCHANGED <<shared_context, locked, waiters, heap>>

\* analyze_code(file_path): the file cannot be read, {"error": ...} is returned
ReadFails ==
    /\ pc[Analyst] = "idle"
    /\ UNCHANGED vars

\* Step 1: claude_analysis = await _claude_analyze(...); store_context("claude", ...)
Step1Store(claude_analysis) ==
    /\ pc[Analyst] = "step1"
    /\ shared_context' =
          store_context(shared_context, "claude", claude_analysis, Now).shared_context
    /\ hist' = [hist EXCEPT !.claudeAt = Len(shared_context.conversations) + 1]
    /\ pc' = [pc EXCEPT ![Analyst] = "step2"]
    /\ UNCHANGED <<locked, waiters, frame, heap>>

\* Step 2: gpt_context = await get_context("gpt4"); in _gpt4_improve,
\* claude_findings = previous_analysis[0] if previous_analysis else {}
Step2Get ==
    /\ pc[Analyst] = "step2"
    /\ LET gpt_context == get_context(shared_context, "gpt4", DefaultMaxEntries) IN
       frame' = [frame EXCEPT
                   ![Analyst].gpt_context = gpt_context,
                   ![Analyst].claude_findings =
                       IF gpt_context.previous_analysis # <<>>
                       THEN gpt_context.previous_analysis[1] ELSE NoFindings]
    /\ pc' = [pc EXCEPT ![Analyst] = "step2_store"]
    /\ UNCHANGED <<shared_context, locked, waiters, hist, heap>>

\* Step 2: store_context("gpt4", gpt_improvements)
Step2Store ==
    /\ pc[Analyst] = "step2_store"
    /\ shared_context' =
          store_context(shared_context, "gpt4", Gpt4Improvements, Now).shared_context
    /\ hist' = [hist EXCEPT !.gpt4At = Len(shared_context.conversations) + 1]
    /\ pc' = [pc EXCEPT ![Analyst] = "step3"]
    /\ UNCHANGED <<locked, waiters, frame, heap>>

\* Step 3: gemini_context = await get_context("gemini")
Step3Get ==
    /\ pc[Analyst] = "step3"
    /\ frame' = [frame EXCEPT ![Analyst].gemini_context =
                    get_context(shared_context, "gemini", DefaultMaxEntries)]
    /\ pc' = [pc EXCEPT ![Analyst] = "step3_store"]
    /\ UNCHANGED <<shared_context, locked, waiters, hist, heap>>

\* Step 3: store_context("gemini", gemini_review)
Step3Store ==
    /\ pc[Analyst] = "step3_store"
    /\ shared_context' =
          store_context(shared_context, "gemini", GeminiReview, Now).shared_context
    /\ pc' = [pc EXCEPT ![Analyst] = "summary"]
    /\ UNCHANGED <<locked, waiters, frame, hist, heap>>

\* context_summary = get_summary(); return {...}
Return ==
    /\ pc[Analyst] = "summary"
    /\ pc' = [pc EXCEPT ![Analyst] = "idle"]
    /\ frame' = [frame EXCEPT ![Analyst] = NoLocals]
    /\ UNCHANGED <<shared_context, locked, waiters, hist, heap>>

NextAssistant ==
    \/ \E file \in Files : AnalyzeCode(file)
    \/ ReadFails
    \/ Step1Store(ClaudeAnalysis(frame[Analyst].file))
    \/ Step1Store(ClaudeError)
    \/ Step2Get
    \/ Step2Store
    \/ Step3Get
    \/ Step3Store
    \/ Return

SpecAssistant == InitAssistant /\ [][NextAssistant]_vars

(***************************************************************************)
(* Properties                                                              *)
(***************************************************************************)
conversations == shared_context.conversations

\* task t has computed a view and not yet returned it
Viewed(t) == pc[t] = "release" /\ frame[t].op = "get_context"

\* positions of the log entries that another producer than P stored
OthersAt(P) == {i \in 1..Len(conversations) : conversations[i].model # P}

\* the j-th smallest element of a set of positions
Nth(S, j) == CHOOSE i \in S : Cardinality({h \in S : h <= i}) = j

Min(a, b) == IF a < b THEN a ELSE b

\* C1: no previous_analysis computed for a consumer P, whatever max_entries
\* (negative, zero or positive) and whatever the store then holds, contains an
\* entry whose producer is P.
C1_SelfExclusion ==
    \A t \in Tasks : Viewed(t) =>
        \A i \in DOMAIN frame[t].ret.previous_analysis :
            frame[t].ret.previous_analysis[i].model # frame[t].model

\* a view computed for a consumer that has an entry of its own in the log,
\* together with one of another producer, which the view shows
C1_Witness ==
    \E t \in Tasks :
        /\ Viewed(t)
        /\ \E i \in 1..Len(conversations) : conversations[i].model = frame[t].model
        /\ Len(frame[t].ret.previous_analysis) >= 1

\* the view of the log for P and k >= 1: the last min(k, m) of the m entries
\* of other producers, in log order
BoundedView(view, P, k) ==
    LET m == Cardinality(OthersAt(P))
        n == Min(k, m)
    IN  /\ Len(view.previous_analysis) = n
        /\ \A j \in 1..n :
              view.previous_analysis[j] =
                  FormatEntry(conversations[Nth(OthersAt(P), m - n + j)])

\* C2: for max_entries k >= 1 previous_analysis is the last min(k, m) entries
\* of the m log entries whose producer differs from the consumer, in log
\* order: the filter comes before the truncation.
C2_BoundedView ==
    \A t \in Tasks : (Viewed(t) /\ frame[t].max_entries >= 1) =>
        BoundedView(frame[t].ret, frame[t].model, frame[t].max_entries)

\* a view truncated to fewer entries than other producers stored, computed
\* while the raw log ends with the consumer's own entry or holds more
C2_Witness ==
    \E t \in Tasks :
        /\ Viewed(t)
        /\ frame[t].max_entries >= 1
        /\ Cardinality(OthersAt(frame[t].model)) > frame[t].max_entries
        /\ Len(frame[t].ret.previous_analysis) = frame[t].max_entries

\* C3: a view computed with max_entries <= 0 has an empty previous_analysis.
C3_NonPositiveIsEmpty ==
    \A t \in Tasks : (Viewed(t) /\ frame[t].max_entries <= 0) =>
        frame[t].ret.previous_analysis = <<>>

\* task t is at the end of an import_context call
Imported(t) == pc[t] = "release" /\ frame[t].op = "import_context"

\* a parsed JSON object with none of the three snapshot fields
NoSnapshotField(doc) == doc.status = "object" /\ doc.fields \cap SnapshotFields = {}

Replaced(sc, doc) ==
    /\ Len(sc.conversations) =
          IF "conversations" \in doc.fields THEN Len(doc.conversations) ELSE 0
    /\ \A i \in 1..Len(sc.conversations) :
          /\ sc.conversations[i].model = doc.conversations[i].model
          /\ sc.conversations[i].timestamp = doc.conversations[i].timestamp
          /\ sc.conversations[i].content = doc.conversations[i].content
    /\ sc.tool_outputs =
          IF "tool_outputs" \in doc.fields THEN doc.tool_outputs ELSE <<>>
    /\ sc.discovered_info =
          IF "discovered_info" \in doc.fields THEN doc.discovered_info ELSE EmptyDict

\* C5: an import that fails, for whatever reason, leaves shared_context as the
\* call found it; during and after an import the store is either wholly the
\* old one or wholly the snapshot's.
C5_ImportAllOrNothing ==
    \A t \in Tasks :
        /\ (Imported(t) /\ frame[t].exc # "") => shared_context = frame[t].before
        /\ (Imported(t) /\ frame[t].exc = "") =>
              Replaced(shared_context, json_parse(frame[t].doc))
        /\ pc[t] = "import_context" => shared_context = frame[t].before

\* imports that failed on a missing file, on unparseable content and on an
\* entry record with a missing or an unexpected field, in a store that holds
\* entries and other containers than the document's
C5_WitnessCase(t, status, convFields) ==
    /\ Imported(t)
    /\ frame[t].exc # ""
    /\ frame[t].doc.status = status
    /\ status = "object" =>
          \E i \in 1..Len(frame[t].doc.conversations) :
              frame[t].doc.conversations[i].fields = convFields
    /\ shared_context.conversations # <<>>
    /\ shared_context.tool_outputs # frame[t].doc.tool_outputs

C5_Witness ==
    \E t \in Tasks :
        C5_WitnessCase(t, "object", {"model", "timestamp"})

C5_WitnessMissingFile == \E t \in Tasks : C5_WitnessCase(t, "missing", {})

C5_WitnessUnparseable == \E t \in Tasks : C5_WitnessCase(t, "garbage", {})

C5_WitnessExtraField ==
    \E t \in Tasks : C5_WitnessCase(t, "object", EntryFields \cup {"note"})

\* task t holds the lock: it is inside a critical section
InCS(t) ==
    pc[t] \in {"locked", "store_discoveries", "store_tool_outputs",
               "import_context", "release"}

C6_AtMostOne ==
    /\ \A t, u \in Tasks : (InCS(t) /\ InCS(u)) => t = u
    /\ locked <=> \E t \in Tasks : InCS(t)

\* a step that leaves task t where it is inside its critical section does
\* not change the store
C6_NoInterleaving ==
    \A t \in Tasks :
        (InCS(t) /\ pc'[t] = pc[t] /\ frame'[t] = frame[t]) =>
            shared_context' = shared_context

\* C6: at most one task is inside a critical section of store_context,
\* get_context, clear_context, export_context or import_context, and no step
\* of another task changes the store while one is inside.
C6_MutualExclusion == []C6_AtMostOne /\ [][C6_NoInterleaving]_vars

\* one task half way through an append while the other waits for the lock
C6_Witness ==
    \E t, u \in Tasks :
        /\ pc[t] = "store_discoveries"
        /\ pc[u] = "wait"
        /\ waiters = <<u>>

\* entry e carries a discoveries mapping / a tool_outputs sequence
HasDiscoveries(e) ==
    "discoveries" \in DOMAIN e.content /\ e.content["discoveries"].type = "dict"

HasToolOutputs(e) ==
    "tool_outputs" \in DOMAIN e.content /\ e.content["tool_outputs"].type = "list"

\* entry e defines discovery key k
Defines(e, k) == HasDiscoveries(e) /\ k \in DOMAIN e.content["discoveries"].d

DiscoveryKeys == {"x", "y", "z"}

\* position of the latest entry of log that defines k
LastDefining(log, k) ==
    CHOOSE i \in 1..Len(log) :
        /\ Defines(log[i], k)
        /\ \A j \in (i + 1)..Len(log) : ~Defines(log[j], k)

\* map is the left-to-right merge of the discoveries of the entries of log
MergeOf(map, log) ==
    \A k \in DiscoveryKeys \cup DOMAIN map :
        /\ k \in DOMAIN map <=> \E i \in 1..Len(log) : Defines(log[i], k)
        /\ k \in DOMAIN map =>
              map[k] = log[LastDefining(log, k)].content["discoveries"].d[k]

\* the tool_outputs elements of the entries of log, in order
RECURSIVE ToolOutputsOf(_)
ToolOutputsOf(log) ==
    IF log = <<>> THEN <<>>
    ELSE ToolOutputsOf(SubSeq(log, 1, Len(log) - 1)) \o
         (IF HasToolOutputs(log[Len(log)])
          THEN log[Len(log)].content["tool_outputs"].l ELSE <<>>)

\* C7 as stated: every view computed in a store filled by appends alone shows,
\* for the entries of the log, all their discoveries merged and all their
\* tool_outputs elements in the buffer (the view of whole appends).
C7_ViewOfWholeAppends ==
    \A t \in Tasks : (Viewed(t) /\ hist.appendsOnly) =>
        /\ MergeOf(frame[t].ret.key_findings, conversations)
        /\ frame[t].ret.recent_tool_outputs =
              TailSlice(ToolOutputsOf(conversations), RecentToolOutputs)

\* task t is at the end of a store_context call
Stored(t) == pc[t] = "release" /\ frame[t].op = "store_context"

\* sc is `before' with the entry, its discoveries and its tool outputs applied
AppliedAll(sc, before, model, context) ==
    LET e == sc.conversations[Len(sc.conversations)] IN
    /\ Len(sc.conversations) = Len(before.conversations) + 1
    /\ SubSeq(sc.conversations, 1, Len(before.conversations)) = before.conversations
    /\ e.model = model /\ e.content = context
    /\ MergeOf(sc.discovered_info,
               <<ContextEntry("", "", ("discoveries" :> JDict(before.discovered_info))),
                 e>>)
    /\ sc.tool_outputs = before.tool_outputs \o ToolOutputsOf(<<e>>)

\* C8 as stated: a store_context call raises nothing, and it ends with the
\* log append, the discovery merge and the tool-output append all applied or
\* none of them, for every payload.
C8_AppendAtomic ==
    \A t \in Tasks : Stored(t) =>
        /\ frame[t].exc = ""
        /\ \/ AppliedAll(shared_context, frame[t].before, frame[t].model,
                         frame[t].context)
           \/ shared_context = frame[t].before

IsPrefix(s, r) == Len(s) <= Len(r) /\ SubSeq(r, 1, Len(s)) = s

\* the log is what the last clear or import left, followed by one entry for
\* each store_context call since, in the order the calls got the lock
C9_LogIsCalls ==
    /\ Len(conversations) = hist.base + Len(hist.acquired)
    /\ \A i \in 1..Len(hist.acquired) :
          /\ conversations[hist.base + i].model = hist.acquired[i][1]
          /\ conversations[hist.base + i].content = hist.acquired[i][2]

\* the step is the assignment of a clear_context or an import_context
ClearOrImportStep ==
    \E t \in Tasks :
        /\ pc[t] \in {"locked", "import_context"}
        /\ pc'[t] = "release"
        /\ frame'[t].op \in {"clear_context", "import_context"}

\* the step is the first statement of a store_context
StoreAppendStep == \E t \in Tasks : pc[t] = "locked" /\ pc'[t] = "store_discoveries"

C9_StepKeepsLog ==
    /\ ~ClearOrImportStep =>
          IsPrefix(conversations, shared_context'.conversations)
    /\ StoreAppendStep =>
          Len(shared_context'.conversations) = Len(conversations) + 1
    /\ ~(StoreAppendStep \/ ClearOrImportStep) =>
          shared_context'.conversations = conversations

\* C9: every store_context call adds exactly one entry at the end of the log,
\* so N calls on an empty store give a log of length N in lock-acquisition
\* order, and every step other than a clear or an import keeps the old log as
\* a prefix of the new one.
C9_AppendOnlyLog == []C9_LogIsCalls /\ [][C9_StepKeepsLog]_vars

\* two store_context calls on the empty store, by different producers
C9_Witness ==
    /\ hist.appendsOnly
    /\ Len(hist.acquired) = 2
    /\ Len(conversations) = 2
    /\ conversations[1].model # conversations[2].model

\* no store_context call is between its log append and its discovery merge
NoAppendInFlight == \A t \in Tasks : pc[t] # "store_discoveries"

\* C10: in a store filled by appends alone since it was last empty, once no
\* append is in flight, discovered_info is the left-to-right merge of the
\* discoveries mappings of the log entries: each key has the value of the
\* latest entry that defines it, and no other key is present.
C10_DiscoveryMap ==
    (hist.appendsOnly /\ NoAppendInFlight) =>
        MergeOf(shared_context.discovered_info, conversations)

\* {discoveries: {x: 1}} then {discoveries: {x: 2}}: x is 2, one discovery
C10_Witness ==
    /\ hist.appendsOnly
    /\ NoAppendInFlight
    /\ Len(conversations) = 2
    /\ Defines(conversations[1], "x")
    /\ conversations[1].content["discoveries"].d["x"] = 1
    /\ Defines(conversations[2], "x")
    /\ conversations[2].content["discoveries"].d["x"] = 2
    /\ get_context(shared_context, "gemini", 1).key_findings["x"] = 2
    /\ get_summary(shared_context).discoveries_count = 1

\* task t is at the end of an export_context call
Exported(t) == pc[t] = "release" /\ frame[t].op = "export_context"

\* stores a and b answer get_summary and every get_context alike
SameAnswers(a, b) ==
    /\ get_summary(a) = get_summary(b)
    /\ \A P \in Consumers, k \in MaxEntriesArgs :
          get_context(a, P, k) = get_context(b, P, k)

Cleared(t) == pc[t] = "release" /\ frame[t].op = "clear_context"

\* the store answers as an empty one: zero counts, no producer, empty views
AnswersEmpty(sc) ==
    /\ get_summary(sc) =
          [total_conversations |-> 0, models_involved |-> {},
           discoveries_count |-> 0, tool_outputs_count |-> 0]
    /\ \A P \in Consumers, k \in MaxEntriesArgs :
          /\ get_context(sc, P, k).previous_analysis = <<>>
          /\ get_context(sc, P, k).key_findings = EmptyDict
          /\ get_context(sc, P, k).recent_tool_outputs = <<>>

C12_Cleared ==
    \A t \in Tasks : Cleared(t) =>
        /\ shared_context.conversations = <<>>
        /\ shared_context.tool_outputs = <<>>
        /\ shared_context.discovered_info = EmptyDict
        /\ AnswersEmpty(shared_context)

\* the step of a clear_context empties the three containers together
C12_ClearStep ==
    \A t \in Tasks :
        (pc[t] = "locked" /\ pc'[t] = "release" /\ frame'[t].op = "clear_context") =>
            /\ shared_context'.conversations = <<>>
            /\ shared_context'.tool_outputs = <<>>
            /\ shared_context'.discovered_info = EmptyDict

\* C12: clear_context empties the log, the discovery map and the tool-output
\* buffer in one step, whatever the store held, and until the call returns
\* get_summary gives zero counts and no producer and get_context gives empty
\* previous_analysis, key_findings and recent_tool_outputs for every consumer
\* and max_entries; no state has only some of the three emptied by a clear.
C12_ClearResets == []C12_Cleared /\ [][C12_ClearStep]_vars

\* a clear_context of a store that held entries, discoveries and tool outputs
C12_Witness ==
    \E t \in Tasks :
        /\ Cleared(t)
        /\ frame[t].before.conversations # <<>>
        /\ frame[t].before.tool_outputs # <<>>
        /\ DOMAIN frame[t].before.discovered_info # {}
        /\ shared_context = EmptySharedContext

\* what the parsed snapshot `data' holds, an absent field holding nothing
SnapshotEntries(data) ==
    IF "conversations" \in data.fields
    THEN {ContextEntry(c.model, c.timestamp, c.content) : c \in Range(data.conversations)}
    ELSE {}

SnapshotOutputs(data) ==
    IF "tool_outputs" \in data.fields THEN Range(data.tool_outputs) ELSE {}

SnapshotKeys(data) ==
    IF "discovered_info" \in data.fields THEN DOMAIN data.discovered_info ELSE {}

\* C13: after an import_context that raised nothing, the log, the discovery
\* map and the tool-output buffer are exactly the snapshot's conversations,
\* discovered_info and tool_outputs: every entry, discovery key and tool
\* output still in the store is one the snapshot holds.
C13_ImportReplaces ==
    \A t \in Tasks : (Imported(t) /\ frame[t].exc = "") =>
        LET data == json_parse(frame[t].doc) IN
        /\ Replaced(shared_context, data)
        /\ Range(shared_context.conversations) \subseteq SnapshotEntries(data)
        /\ Range(shared_context.tool_outputs) \subseteq SnapshotOutputs(data)
        /\ DOMAIN shared_context.discovered_info \subseteq SnapshotKeys(data)

\* a successful import into a store that held an entry, a discovery key and
\* a tool output that the snapshot does not hold
C13_Witness ==
    \E t \in Tasks :
        /\ Imported(t)
        /\ frame[t].exc = ""
        /\ frame[t].doc.conversations # <<>>
        /\ Range(frame[t].before.conversations)
              \ SnapshotEntries(json_parse(frame[t].doc)) # {}
        /\ Range(frame[t].before.tool_outputs)
              \ SnapshotOutputs(json_parse(frame[t].doc)) # {}
        /\ DOMAIN frame[t].before.discovered_info
              \ SnapshotKeys(json_parse(frame[t].doc)) # {}

\* a parsed JSON object in which every entry record has at least the three
\* entry fields: at most fields are absent at the top level and unknown
\* fields are present, at the top level or inside an entry record
OnlyAbsentOrExtra(doc) ==
    /\ doc.status = "object"
    /\ \A i \in 1..Len(doc.conversations) :
          EntryFields \subseteq doc.conversations[i].fields

\* C14 as stated: an import of a document whose snapshot fields may be absent
\* and that may carry unknown fields, at the top level and inside an entry
\* record, raises nothing and leaves the store holding what the document
\* describes, absent fields taken as empty.
C14_ImportTolerant ==
    \A t \in Tasks : (Imported(t) /\ OnlyAbsentOrExtra(frame[t].doc)) =>
        /\ frame[t].exc = ""
        /\ Replaced(shared_context, json_parse(frame[t].doc))

\* the discovery map, the log and the tool-output buffer as their readers see
\* them: every reference replaced by the value of its object
DeepDiscoveries ==
    [k \in DOMAIN shared_context.discovered_info |->
        Deep(heap, shared_context.discovered_info[k])]

DeepLog ==
    [i \in 1..Len(shared_context.conversations) |->
        [shared_context.conversations[i] EXCEPT !.content = Deep(heap, @)]]

DeepBuffer ==
    [i \in 1..Len(shared_context.tool_outputs) |->
        Deep(heap, shared_context.tool_outputs[i])]

\* the view a get_context for P would return now, as its reader sees it
DeepView(P) ==
    LET view == get_context(Shallow(shared_context, heap), P, DefaultMaxEntries) IN
    [previous_analysis |->
        [i \in 1..Len(view.previous_analysis) |->
            [view.previous_analysis[i] EXCEPT !.summary = Deep(heap, @),
                                              !.findings = Deep(heap, @),
                                              !.suggestions = Deep(heap, @)]],
     key_findings |->
        [k \in DOMAIN view.key_findings |-> Deep(heap, view.key_findings[k])],
     recent_tool_outputs |->
        [i \in 1..Len(view.recent_tool_outputs) |->
            Deep(heap, view.recent_tool_outputs[i])]]

\* a consumer edits the keys of the key_findings it got, or changes an object
\* reachable from it
KeyFindingsStep ==
    \E t \in Readers :
        \/ \E edit \in KeyEdits : MutateKeys(t, edit)
        \/ \E a \in DOMAIN heap : MutateView(t, "key_findings", a)

C15_StepKeepsDiscoveries ==
    KeyFindingsStep =>
        /\ DeepDiscoveries' = DeepDiscoveries
        /\ get_summary(shared_context)' = get_summary(shared_context)
        /\ \A P \in Consumers : DeepView(P).key_findings' = DeepView(P).key_findings

\* C15 as stated: whatever a caller does to the key_findings mapping it got
\* from get_context (adding, removing, overwriting keys, changing the values
\* reachable from it), the store's discovery map stays as it was, and so do
\* the discoveries of a later get_context or get_summary.
C15_KeyFindingsIsCopy == [][C15_StepKeepsDiscoveries]_vars

\* a producer changes an object of a payload it stored, or a consumer changes
\* an object reachable from the previous_analysis or the recent_tool_outputs
\* of a view it got
PayloadOrViewStep ==
    \/ \E a \in DOMAIN heap : MutatePayload(a)
    \/ \E t \in Readers, a \in DOMAIN heap :
          \/ MutateView(t, "previous_analysis", a)
          \/ MutateView(t, "recent_tool_outputs", a)

C16_StepKeepsEntries ==
    PayloadOrViewStep =>
        /\ DeepLog' = DeepLog
        /\ DeepBuffer' = DeepBuffer
        /\ \A P \in Consumers : DeepView(P)' = DeepView(P)

\* C16 as stated: once an entry is stored, neither a producer changing the
\* payload object it passed nor a consumer changing what a view gave it (the
\* findings and suggestions of previous_analysis, the records of
\* recent_tool_outputs) changes the logged entry, the tool-output buffer or
\* a later view.
C16_EntriesUnaliased == [][C16_StepKeepsEntries]_vars

\* the payload of the call has a tool_outputs sequence
PassedToolOutputs(t) ==
    /\ "tool_outputs" \in DOMAIN frame[t].context
    /\ frame[t].context["tool_outputs"].type = "list"

\* view is the last min(RecentToolOutputs, length) elements of buffer, in order
LastOfBuffer(view, buffer) ==
    LET n == Min(RecentToolOutputs, Len(buffer)) IN
    /\ Len(view) = n
    /\ \A j \in 1..n : view[j] = buffer[Len(buffer) - n + j]

\* C17 as stated: a store_context call whose payload has a tool_outputs
\* sequence ends with every element of it added, in order, at the end of the
\* buffer, and recent_tool_outputs of every view is the last min(10, length)
\* elements of the buffer, whatever for_model and max_entries are.
C17_ToolOutputBuffer ==
    \A t \in Tasks :
        /\ (Stored(t) /\ PassedToolOutputs(t)) =>
              shared_context.tool_outputs =
                  frame[t].before.tool_outputs \o frame[t].context["tool_outputs"].l
        /\ Viewed(t) =>
              LastOfBuffer(frame[t].ret.recent_tool_outputs,
                           shared_context.tool_outputs)

\* summary describes the store: as many entries as the log has positions, the
\* producers that stored one of them, the keys of the discovery map and every
\* element of the tool-output buffer
SummaryOf(summary, sc) ==
    /\ summary.total_conversations = Cardinality(DOMAIN sc.conversations)
    /\ \A m \in Models :
          m \in summary.models_involved <=>
              \E i \in DOMAIN sc.conversations : sc.conversations[i].model = m
    /\ summary.models_involved \subseteq Models
    /\ summary.discoveries_count =
          Cardinality({k \in DiscoveryKeys : k \in DOMAIN sc.discovered_info})
    /\ summary.tool_outputs_count = Cardinality(DOMAIN sc.tool_outputs)

C18_Summary == SummaryOf(get_summary(shared_context), shared_context)

\* a get_summary call changes nothing
C18_StepReadsOnly ==
    (\E t \in Tasks : GetSummary(t)) =>
        (shared_context' = shared_context /\ locked' = locked /\ waiters' = waiters)

\* C18: in every reachable state get_summary returns the length of the log,
\* the set of producers occurring in it, the number of keys of the discovery
\* map and the length of the whole tool-output buffer (not of the 10 elements
\* a view shows), and the call changes neither the store nor the lock.
C18_SummaryIsPureRead == []C18_Summary /\ [][C18_StepReadsOnly]_vars

\* a caller free to call get_summary on a store with two entries of one
\* producer, a discovery and more tool outputs than a view shows
C18_Witness ==
    /\ \E t \in Tasks : ENABLED GetSummary(t)
    /\ Len(conversations) = 2
    /\ conversations[1].model = conversations[2].model
    /\ get_summary(shared_context).total_conversations = 2
    /\ Cardinality(get_summary(shared_context).models_involved) = 1
    /\ get_summary(shared_context).discoveries_count = 1
    /\ get_summary(shared_context).tool_outputs_count > RecentToolOutputs

\* the log of sc is that of before with one entry for (model, context) added
EntryLogged(sc, before, model, context) ==
    /\ Len(sc.conversations) = Len(before.conversations) + 1
    /\ IsPrefix(before.conversations, sc.conversations)
    /\ sc.conversations[Len(sc.conversations)].model = model
    /\ sc.conversations[Len(sc.conversations)].content = context

\* field of a previous_analysis record is what the payload holds for it, or
\* `empty' if the payload has no such key
FieldOrEmpty(shown, content, field, empty) ==
    /\ field \in DOMAIN content => shown = content[field]
    /\ field \notin DOMAIN content => shown = empty

C19_StoreSkipsAbsent ==
    \A t \in Tasks : Stored(t) =>
        /\ "discoveries" \notin DOMAIN frame[t].context =>
              /\ shared_context.discovered_info = frame[t].before.discovered_info
              /\ EntryLogged(shared_context, frame[t].before, frame[t].model,
                             frame[t].context)
        /\ "tool_outputs" \notin DOMAIN frame[t].context =>
              /\ shared_context.tool_outputs = frame[t].before.tool_outputs
              /\ EntryLogged(shared_context, frame[t].before, frame[t].model,
                             frame[t].context)
        /\ ("discoveries" \notin DOMAIN frame[t].context
              /\ "tool_outputs" \notin DOMAIN frame[t].context) => frame[t].exc = ""

C19_ViewDefaults ==
    \A t \in Tasks : (Viewed(t) /\ frame[t].max_entries >= 1) =>
        LET P == frame[t].model
            m == Cardinality(OthersAt(P))
            n == Min(frame[t].max_entries, m)
        IN  \A j \in 1..Min(n, Len(frame[t].ret.previous_analysis)) :
              LET shown == frame[t].ret.previous_analysis[j]
                  content == conversations[Nth(OthersAt(P), m - n + j)].content
              IN  /\ FieldOrEmpty(shown.summary, content, "summary", JStr(""))
                  /\ FieldOrEmpty(shown.findings, content, "findings", JList(<<>>))
                  /\ FieldOrEmpty(shown.suggestions, content, "suggestions",
                                  JList(<<>>))

\* C19: a store_context call whose payload has no discoveries key leaves the
\* discovery map as it was, one whose payload has no tool_outputs key leaves
\* the buffer as it was, the entry is logged in both cases and nothing is
\* raised for the absence; an entry whose payload lacks summary, findings or
\* suggestions shows in previous_analysis with "" or the empty sequence for it.
C19_AbsentKeysSkipped == C19_StoreSkipsAbsent /\ C19_ViewDefaults

\* a store_context of {summary, findings} into a store that holds discoveries
\* and tool outputs: the entry is logged and would show with no suggestions
C19_Witness ==
    \E t \in Tasks :
        /\ Stored(t)
        /\ frame[t].context = PayloadB
        /\ frame[t].exc = ""
        /\ DOMAIN frame[t].before.discovered_info # {}
        /\ frame[t].before.tool_outputs # <<>>
        /\ conversations[Len(conversations)].content = PayloadB
        /\ LET view == get_context(shared_context, "gemini", DefaultMaxEntries) IN
           /\ view.previous_analysis[Len(view.previous_analysis)].suggestions
                 = JList(<<>>)
           /\ view.previous_analysis[1].summary = JStr("")

\* a view computed while the log holds an entry without summary
C19_WitnessView ==
    \E t \in Tasks :
        /\ Viewed(t)
        /\ frame[t].max_entries >= 1
        /\ Len(frame[t].ret.previous_analysis) >= 1
        /\ frame[t].ret.previous_analysis[1].summary = JStr("")
        /\ frame[t].ret.previous_analysis[1].findings = JList(<<>>)

\* task t has raised inside its critical section and not yet left it
RaisedInside(t) == pc[t] = "release" /\ frame[t].exc # ""

\* a task that holds the lock is not waiting for it
C20_NoReentry ==
    \A t \in Tasks : InCS(t) => \A i \in DOMAIN waiters : waiters[i] # t

\* C20: under fair scheduling every call of store_context, get_context,
\* clear_context, export_context or import_context that a task has made
\* returns or raises; no task that holds the lock waits for it; and a task
\* that raises inside its critical section leaves the lock free.
C20_NoBlocking ==
    /\ \A t \in Tasks : (pc[t] # "idle") ~> (pc[t] = "idle")
    /\ []C20_NoReentry
    /\ \A t \in Tasks : RaisedInside(t) ~> ~locked

\* a task waits for the lock while the holder has raised inside an import
C20_Witness ==
    \E t, u \in Tasks :
        /\ RaisedInside(t)
        /\ frame[t].op = "import_context"
        /\ pc[u] = "wait"
        /\ locked

\* the previous_analysis record of the log entry at position i
ShownAt(i) == FormatEntry(conversations[i])

\* C21 as stated: in every analyze_code call, the entry _gpt4_improve takes as
\* Claude's analysis (element 0 of previous_analysis of get_context("gpt4")) is
\* the claude entry that step 1 of the same call stored.
C21_Gpt4UsesOwnClaudeEntry ==
    pc[Analyst] = "step2_store" =>
        /\ frame[Analyst].gpt_context.previous_analysis # <<>>
        /\ frame[Analyst].claude_findings = ShownAt(hist.claudeAt)

\* C22: in every analyze_code call, the previous_analysis Gemini receives in
\* step 3 ends with the claude entry and then the gpt4 entry that the same
\* call stored, and holds no gemini entry, however many entries earlier calls
\* left in the store.
C22_GeminiSeesBoth ==
    pc[Analyst] = "step3_store" =>
        LET shown == frame[Analyst].gemini_context.previous_analysis
            n == Len(shown)
        IN  /\ n >= 2
            /\ hist.claudeAt < hist.gpt4At
            /\ shown[n - 1] = ShownAt(hist.claudeAt)
            /\ shown[n - 1].model = "claude"
            /\ shown[n] = ShownAt(hist.gpt4At)
            /\ shown[n].model = "gpt4"
            /\ \A i \in 1..n : shown[i].model # "gemini"

\* step 3 of the sixth call: the log holds gemini entries of earlier calls and
\* more claude and gpt4 entries than the view shows
C22_Witness ==
    /\ pc[Analyst] = "step3_store"
    /\ hist.calls = 6
    /\ \E i \in 1..Len(conversations) : conversations[i].model = "gemini"
    /\ Cardinality({i \in 1..Len(conversations) : conversations[i].model # "gemini"})
          > DefaultMaxEntries
    /\ Len(frame[Analyst].gemini_context.previous_analysis) = DefaultMaxEntries
    /\ frame[Analyst].gemini_context.previous_analysis[DefaultMaxEntries]
          = ShownAt(Len(conversations))

====
